---- MODULE Spec2Model ----
(***************************************************************************)
(* Model of the Dynamic RAG Server (src/server/server.py; the older        *)
(* src/backend/server.py is the same program without the DELETE            *)
(* endpoint).                                                              *)
(*                                                                         *)
(* Every endpoint is an `async def` whose body holds no `await`: the       *)
(* event loop runs a handler from its first line to its response without   *)
(* switching to another request, so one request is one atomic action.      *)
(*                                                                         *)
(* The calls into the libraries are modelled by what they do to the        *)
(* database and by the places where they can raise:                        *)
(*   - PGVector(...) creates the two tables when they are missing and      *)
(*     gets-or-creates the metadata row of its collection;                 *)
(*   - PGVector.from_documents(..., pre_delete_collection=True) embeds     *)
(*     the documents, then deletes the collection (committed), then        *)
(*     creates its metadata row again (committed), then inserts the        *)
(*     embedding rows (committed);                                         *)
(*   - the retriever of a handle looks its collection up by name on each   *)
(*     query and raises when the row is gone;                              *)
(*   - the Inspector made once at startup memoises reflection results in   *)
(*     its info_cache, has_table included.                                 *)
(* The external services (embedding model, chat model, database) fail      *)
(* nondeterministically: the `fault` parameter of an action names the      *)
(* call of this request that raises, "none" when no call does (a request   *)
(* that returns before its first call has no call to fail).                *)
(*                                                                         *)
(* The second part models ConfluenceRAGApp of                              *)
(* src/document_loader/confluence_loader.py, whose load_confluence_data    *)
(* and askQuery use the same store calls; it has a specification of its    *)
(* own, LoaderSpec.                                                        *)
(***************************************************************************)
EXTENDS Integers, FiniteSets, Sequences, TLC

\* ---------------------------------------------------------------- bounds
\* the uuids of the rows made for one collection name are drawn from a pool
\* of MaxUuid values
MaxUuid == 2

\* ----------------------------------------------------- program constants
ChunkSize == 500
ChunkOverlap == 50

\* ---------------------------------------------------------------- inputs
Names == {"a", "b"}

\* A request body's `content`: its length in characters and whether it is
\* whitespace only.  Non-blank contents stand for text without separators.
Contents ==
  { [len |-> 3,   blank |-> TRUE],
    [len |-> 500, blank |-> FALSE],
    [len |-> 501, blank |-> FALSE] }

VARIABLES
  env_set,           \* PG_VECTOR_DATABASE_URL is in the environment
  startup,           \* "pending" | "done" | "aborted"
  is_server_ready,   \* the readiness flag
  components,        \* the module globals startup_event has assigned
  tables_exist,      \* langchain_pg_collection / langchain_pg_embedding exist
  collection_table,  \* rows [name, uuid] of langchain_pg_collection
  embedding_table,   \* rows [collection_id, content, idx] of langchain_pg_embedding
  inspector_cache,   \* the Inspector's memo of has_table: "unset" | "yes" | "no"
  rag_chain_cache,   \* collection name -> retrieval pipeline handle
  resp,              \* the response of the last request
  call,              \* the last method call on the ConfluenceRAGApp, with its
                     \* outcome
  hist               \* history, per name: "ingested" / "deleted" when the last
                     \* request that wrote to its collection was a successful
                     \* ingest / delete, "none" otherwise (nothing written, or
                     \* an ingest that failed after its first write)

vars == << env_set, startup, is_server_ready, components, tables_exist, collection_table,
           embedding_table, inspector_cache, rag_chain_cache, resp, call, hist >>

store == << tables_exist, collection_table, embedding_table >>

\* ------------------------------------------------------------- responses
NoUuid == [of |-> "", k |-> 0]

NoHandle == [collection_name |-> "", built |-> NoUuid]

NoContent == [len |-> 3, blank |-> TRUE]

\* A response, with the request it answers: the endpoint, the collection
\* name and content of the request, the kind of call that raised while it
\* ran (fault: "none", "embed", "store", "llm"), the status code, and the body: the names listed, the
\* documents_added, the handle that answered.
Raised(fault) ==
  CASE fault = "none" -> "none"
    [] fault \in {"embed", "llm"} -> fault
    [] OTHER -> "store"

Reply(op, n, st, fault) ==
  [ op |-> op, name |-> n, content |-> NoContent, fault |-> Raised(fault), status |-> st,
    names |-> {}, added |-> 0, handle |-> NoHandle ]

NoReply == Reply("none", "", 0, "none")

\* --------------------------------------------------------------- chunker
\* RecursiveCharacterTextSplitter(chunk_size=500, chunk_overlap=50)
\* .create_documents([content]): blank text gives no document; text without
\* separators is cut into windows of ChunkSize characters, each window after
\* the first starting ChunkOverlap characters before the end of the last.
CeilDiv(x, y) == (x + y - 1) \div y

ChunkCount(c) ==
  IF c.blank \/ c.len = 0 THEN 0
  ELSE IF c.len <= ChunkSize THEN 1
  ELSE 1 + CeilDiv(c.len - ChunkSize, ChunkSize - ChunkOverlap)

\* ------------------------------------------------------------ the store
HasCollection(tbl, n) == \E r \in tbl : r.name = n

UuidOf(tbl, n) == (CHOOSE r \in tbl : r.name = n).uuid

CollectionNames(tbl) == { r.name : r \in tbl }

\* CollectionStore.get_or_create: the row of n, made with a fresh uuid when
\* there is none
GetOrCreate(tbl, n, fresh) ==
  IF HasCollection(tbl, n) THEN tbl ELSE tbl \cup { [name |-> n, uuid |-> fresh] }

\* PGVector.delete_collection: the metadata row goes, and its embedding rows
\* with it (ON DELETE CASCADE)
DropCollection(tbl, n) == { r \in tbl : r.name # n }

DropEmbeddings(emb, id) == { e \in emb : e.collection_id # id }

EmbeddingsOf(emb, id) == { e \in emb : e.collection_id = id }

\* (changed) one row for the whole content instead of one row per chunk
NewEmbeddings_PerContent(id, c) ==
  { [collection_id |-> id, content |-> c, idx |-> i] : i \in 1..(IF ChunkCount(c) > 0 THEN 1 ELSE 0) }

NewEmbeddings(id, c) ==
  { [collection_id |-> id, content |-> c, idx |-> i] : i \in 1..ChunkCount(c) }

\* uuid.uuid4() of a new metadata row for name n: a value that nothing in
\* the program holds once the row is made.  A uuid is written [of, k]; the
\* least k of the pool stands for the new value, among those held neither by
\* a cached handle nor by an embedding row that outlives the replacement of
\* n's present row (that row and its embeddings are gone before the new row
\* is made).
HeldUuids(n) ==
  { rag_chain_cache[m].built : m \in DOMAIN rag_chain_cache }
    \cup { e.collection_id : e \in { x \in embedding_table :
              \A r \in collection_table : r.name = n => r.uuid # x.collection_id } }

Unused(n) == { k \in 1..MaxUuid : [of |-> n, k |-> k] \notin HeldUuids(n) }

HasFreshUuid(n) == Unused(n) # {}

FreshUuid(n) ==
  [of |-> n, k |-> CHOOSE k \in Unused(n) : \A j \in Unused(n) : k <= j]

\* ------------------------------------------- the Confluence loader's data
\* ConfluenceRAGApp.space_keys
SpaceKeys == << "SPACE1", "SPACE2" >>

Spaces == { SpaceKeys[i] : i \in 1..Len(SpaceKeys) }

\* ConfluenceLoader(space_key=...).load(): it raises, or it returns the pages
\* of the space (none, or one page of two chunks)
LoadResults ==
  { [raised |-> TRUE,  documents |-> << >>],
    [raised |-> FALSE, documents |-> << >>],
    [raised |-> FALSE, documents |-> << [len |-> 501, blank |-> FALSE] >>] }

NoLoads == [s \in Spaces |-> [raised |-> FALSE, documents |-> << >>]]

\* the strings askQuery returns
NoInformation == "I don't have enough information to answer that question."

ErrorPrefix == "Error processing your question: "

\* a returned string: a fixed prefix and the text after it
NoResult == [prefix |-> "", text |-> ""]

\* A call of load_confluence_data or askQuery, with its outcome: the method,
\* the collection name, what each space's load gave, all_documents, the kind
\* of call that raised inside it, whether the method raised to its caller,
\* the string it returned, and how many times it called the chat model.
NoCall ==
  [ op |-> "none", name |-> "", loads |-> NoLoads, documents |-> << >>,
    fault |-> "none", raised |-> FALSE, result |-> NoResult, llm_calls |-> 0 ]

\* ------------------------------------------------------------------ Init
Init ==
  /\ env_set \in BOOLEAN
  /\ startup = "pending"
  /\ is_server_ready = FALSE
  /\ components = {}
  /\ tables_exist = FALSE
  /\ collection_table = {}
  /\ embedding_table = {}
  /\ inspector_cache = "unset"
  /\ rag_chain_cache = [m \in {} |-> NoHandle]
  /\ resp = NoReply
  /\ call = NoCall
  /\ hist = [n \in Names |-> "none"]

\* --------------------------------------------------------------- startup
\* the shared components, in the order startup_event assigns them
Components ==
  { "llm", "embeddings", "connection_string", "engine", "inspector", "prompt",
    "document_chain" }

\* startup_event with PG_VECTOR_DATABASE_URL set: the shared components are
\* made and the flag is set last.
startup_event ==
  /\ startup = "pending"
  /\ env_set
  /\ startup' = "done"
  /\ components' = Components
  /\ is_server_ready' = TRUE
  /\ UNCHANGED << env_set, store, inspector_cache, rag_chain_cache, resp, call, hist >>

\* startup_event without the variable: KeyError is re-raised after the two
\* models were made, the application does not start and serves nothing
\* afterwards.
startup_event_KeyError ==
  /\ startup = "pending"
  /\ ~env_set
  /\ startup' = "aborted"
  /\ components' = { "llm", "embeddings" }
  /\ UNCHANGED << env_set, is_server_ready, store, inspector_cache,
                  rag_chain_cache, resp, call, hist >>

\* startup_event with the variable set to a value the database layer
\* rejects: create_engine raises on a malformed URL, inspect(engine) raises
\* when its first connection fails; the exception leaves startup_event
\* before the flag is assigned.
StartupFaults == {"engine", "inspector"}

\* (changed) the flag assigned before the engine is made
startup_event_Error_FlagFirst(fault) ==
  /\ startup = "pending"
  /\ env_set
  /\ startup' = "aborted"
  /\ components' = IF fault = "engine"
                      THEN { "llm", "embeddings", "connection_string" }
                      ELSE { "llm", "embeddings", "connection_string", "engine" }
  /\ is_server_ready' = TRUE
  /\ UNCHANGED << env_set, store, inspector_cache, rag_chain_cache, resp, call, hist >>

startup_event_Error(fault) ==
  /\ startup = "pending"
  /\ env_set
  /\ startup' = "aborted"
  /\ components' = IF fault = "engine"
                      THEN { "llm", "embeddings", "connection_string" }
                      ELSE { "llm", "embeddings", "connection_string", "engine" }
  /\ UNCHANGED << env_set, is_server_ready, store, inspector_cache,
                  rag_chain_cache, resp, call, hist >>

\* requests reach the handlers unless the process has exited
Serving == startup # "aborted"

\* (changed) the readiness check left out
NotReady_Unchecked == FALSE

\* `if not is_server_ready:` at the top of every endpoint
NotReady == ~is_server_ready

\* ---------------------------------------------------------------- ingest
IngestFaults == {"none", "embed", "connect", "create", "insert"}

\* (changed) the check for zero chunks left out
documents_empty_Unchecked(c) == FALSE

\* `if not documents:`
documents_empty(c) == ChunkCount(c) = 0

\* del rag_chain_cache[collection_name]
Evict(cache, n) == [m \in DOMAIN cache \ {n} |-> cache[m]]

\* (changed) pre_delete_collection left out: the chunks are added to the
\* collection the name already has
from_documents_NoPreDelete(n, c, fault) ==
  LET created == GetOrCreate(collection_table, n, FreshUuid(n))
  IN  CASE fault \in {"embed", "connect"} ->
             [raised |-> TRUE, tables |-> tables_exist,
              coll |-> collection_table, emb |-> embedding_table]
        [] fault \in {"create", "insert"} ->
             [raised |-> TRUE, tables |-> TRUE,
              coll |-> created, emb |-> embedding_table]
        [] OTHER ->
             [raised |-> FALSE, tables |-> TRUE, coll |-> created,
              emb |-> embedding_table \cup NewEmbeddings(UuidOf(created, n), c)]

\* PGVector.from_documents(..., pre_delete_collection=True): the database
\* the call leaves behind, and whether it raised.
\*   "embed"   the embedding call raises: nothing was written;
\*   "connect" the database cannot be reached: nothing was written;
\*   "create"  the collection was deleted, and making its row again raises;
\*   "insert"  the row was made again, and inserting the embeddings raises.
from_documents(n, c, fault) ==
  LET old_emb  == IF HasCollection(collection_table, n)
                  THEN DropEmbeddings(embedding_table, UuidOf(collection_table, n))
                  ELSE embedding_table
      dropped  == DropCollection(collection_table, n)
      created  == dropped \cup { [name |-> n, uuid |-> FreshUuid(n)] }
  IN  CASE fault \in {"embed", "connect"} ->
             [ raised |-> TRUE, tables |-> tables_exist, coll |-> collection_table,
               emb |-> embedding_table ]
        [] fault = "create" ->
             [ raised |-> TRUE, tables |-> TRUE, coll |-> dropped, emb |-> old_emb ]
        [] fault = "insert" ->
             [ raised |-> TRUE, tables |-> TRUE, coll |-> created, emb |-> old_emb ]
        [] OTHER ->
             [ raised |-> FALSE, tables |-> TRUE, coll |-> created,
               emb |-> old_emb \cup NewEmbeddings(FreshUuid(n), c) ]

\* (changed) ingest_data without its eviction
IngestCache_NoEvict(n, raised) == rag_chain_cache

\* the cache after the store write of ingest_data: the eviction is reached
\* only when from_documents returned
IngestCache(n, raised) ==
  IF raised THEN rag_chain_cache ELSE Evict(rag_chain_cache, n)

\* POST /ingest {collection_name: n, content: c}
ingest_data(n, c, fault) ==
  /\ Serving
  /\ IF NotReady THEN
       /\ fault = "none"
       /\ resp' = [ Reply("ingest", n, 503, fault) EXCEPT !.content = c ]
       /\ UNCHANGED << store, rag_chain_cache, hist >>
     ELSE IF documents_empty(c) THEN
       /\ fault = "none"
       /\ resp' = [ Reply("ingest", n, 400, fault) EXCEPT !.content = c ]
       /\ UNCHANGED << store, rag_chain_cache, hist >>
     ELSE
       LET w == from_documents(n, c, fault) IN
       /\ HasFreshUuid(n)
       /\ tables_exist' = w.tables
       /\ collection_table' = w.coll
       /\ embedding_table' = w.emb
       /\ rag_chain_cache' = IngestCache(n, w.raised)
       /\ resp' = [ Reply("ingest", n, IF w.raised THEN 500 ELSE 200, fault)
                      EXCEPT !.content = c,
                             !.added = IF w.raised THEN 0 ELSE ChunkCount(c) ]
       /\ hist' = [hist EXCEPT ![n] =
                     CASE ~w.raised -> "ingested"
                       [] fault \in {"create", "insert"} -> "none"
                       [] OTHER -> @]
  /\ UNCHANGED << env_set, startup, is_server_ready, components, call, inspector_cache >>

\* ------------------------------------------------------------------- ask
AskFaults == {"none", "store", "embed", "llm"}

\* (changed) the handle that was built is returned but not stored
get_rag_chain_NoStore(n, fault) ==
  IF n \in DOMAIN rag_chain_cache THEN
    [ raised |-> FALSE, handle |-> rag_chain_cache[n], cache |-> rag_chain_cache,
      tables |-> tables_exist, coll |-> collection_table ]
  ELSE IF fault = "store" THEN
    [ raised |-> TRUE, handle |-> NoHandle, cache |-> rag_chain_cache,
      tables |-> tables_exist, coll |-> collection_table ]
  ELSE
    LET coll == GetOrCreate(collection_table, n, FreshUuid(n))
        h    == [collection_name |-> n, built |-> UuidOf(coll, n)]
    IN  [ raised |-> FALSE, handle |-> h, cache |-> rag_chain_cache,
          tables |-> TRUE, coll |-> coll ]

\* get_rag_chain(collection_name): the cached handle, or a handle built over
\* PGVector(...), which makes the tables and the collection's row when they
\* are missing; when the constructor raises ("store": the database cannot be
\* reached) the caller gets 404 and nothing is cached.
get_rag_chain(n, fault) ==
  IF n \in DOMAIN rag_chain_cache THEN
    [ raised |-> FALSE, handle |-> rag_chain_cache[n], cache |-> rag_chain_cache,
      tables |-> tables_exist, coll |-> collection_table ]
  ELSE IF fault = "store" THEN
    [ raised |-> TRUE, handle |-> NoHandle, cache |-> rag_chain_cache,
      tables |-> tables_exist, coll |-> collection_table ]
  ELSE
    LET coll == GetOrCreate(collection_table, n, FreshUuid(n))
        h    == [collection_name |-> n, built |-> UuidOf(coll, n)]
    IN  [ raised |-> FALSE, handle |-> h,
          cache |-> [m \in DOMAIN rag_chain_cache \cup {n} |->
                       IF m = n THEN h ELSE rag_chain_cache[m]],
          tables |-> TRUE, coll |-> coll ]

\* retrieval_chain.invoke: embed the question, search the collection of the
\* handle's name as it is now, call the chat model.  The call that raises:
\* "embed", "store" (the database cannot be reached, or the collection's row
\* is gone), "llm", or "none" when the chain answers.
invoke(coll, n, fault) ==
  CASE fault = "embed" -> "embed"
    [] fault = "store" \/ ~HasCollection(coll, n) -> "store"
    [] fault = "llm" -> "llm"
    [] OTHER -> "none"

\* POST /ask {collection_name: n}
ask_question(n, fault) ==
  /\ Serving
  /\ IF NotReady THEN
       /\ fault = "none"
       /\ resp' = Reply("ask", n, 503, fault)
       /\ UNCHANGED << store, rag_chain_cache >>
     ELSE
       LET g == get_rag_chain(n, fault)
           f == invoke(g.coll, n, fault)
       IN
       /\ HasFreshUuid(n)
       /\ fault # "none" => (g.raised \/ f = fault)
       /\ tables_exist' = g.tables
       /\ collection_table' = g.coll
       /\ rag_chain_cache' = g.cache
       /\ UNCHANGED embedding_table
       /\ resp' = IF g.raised THEN Reply("ask", n, 404, fault)
                  ELSE [ Reply("ask", n, IF f = "none" THEN 200 ELSE 500, fault)
                           EXCEPT !.handle = g.handle ]
  /\ UNCHANGED << env_set, startup, is_server_ready, components, call, inspector_cache, hist >>

\* ------------------------------------------------------------------ list
ListFaults == {"none", "db"}

\* (changed) a failing has_table query answered as "no such table"
has_table_Swallowed(fault) ==
  IF inspector_cache # "unset" THEN
    [ raised |-> FALSE, answer |-> (inspector_cache = "yes"), memo |-> inspector_cache ]
  ELSE IF fault = "db" THEN
    [ raised |-> FALSE, answer |-> FALSE, memo |-> inspector_cache ]
  ELSE
    [ raised |-> FALSE, answer |-> tables_exist,
      memo |-> IF tables_exist THEN "yes" ELSE "no" ]

\* inspector.has_table("langchain_pg_collection") on the Inspector made at
\* startup: the first answer is kept in its info_cache and given again from
\* then on.  [whether the query raised, the answer, the cache afterwards]
has_table(fault) ==
  IF inspector_cache # "unset" THEN
    [ raised |-> FALSE, answer |-> (inspector_cache = "yes"), memo |-> inspector_cache ]
  ELSE IF fault = "db" THEN
    [ raised |-> TRUE, answer |-> FALSE, memo |-> inspector_cache ]
  ELSE
    [ raised |-> FALSE, answer |-> tables_exist,
      memo |-> IF tables_exist THEN "yes" ELSE "no" ]

\* GET /collections
list_collections(fault) ==
  /\ Serving
  /\ IF NotReady THEN
       /\ fault = "none"
       /\ resp' = Reply("list", "", 503, fault)
       /\ UNCHANGED inspector_cache
     ELSE
       LET t == has_table(fault) IN
       /\ fault = "db" => inspector_cache # "no"
       /\ inspector_cache' = t.memo
       /\ resp' = IF t.raised \/ (t.answer /\ fault = "db")
                  THEN Reply("list", "", 500, fault)
                  ELSE IF ~t.answer THEN Reply("list", "", 200, fault)
                  ELSE [ Reply("list", "", 200, fault)
                           EXCEPT !.names = CollectionNames(collection_table) ]
  /\ UNCHANGED << env_set, startup, is_server_ready, components, call, store, rag_chain_cache, hist >>

\* ---------------------------------------------------------------- delete
DeleteFaults == {"none", "find", "delete_embeddings", "delete_collection", "commit"}

\* (changed) every statement committed as it runs (engine.connect() with
\* autocommit in place of engine.begin())
Transaction_Autocommit(before, work, raised) == work

\* `with engine.begin() as connection:` commits what the block wrote when the
\* block ends normally and rolls it back when the block raises
Transaction(before, work, raised) == IF raised THEN before ELSE work

\* the three statements of delete_collection inside the transaction: the
\* status, and the tables as the block left them when it ended or raised.
\* The first statement raises by itself when the table does not exist.
delete_statements(n, fault) ==
  LET before == [coll |-> collection_table, emb |-> embedding_table] IN
  IF fault = "find" \/ ~tables_exist THEN
    [ status |-> 500, work |-> before ]
  ELSE IF ~HasCollection(collection_table, n) THEN
    [ status |-> 404, work |-> before ]
  ELSE
    LET id   == UuidOf(collection_table, n)
        emb2 == DropEmbeddings(embedding_table, id)
        col3 == { r \in collection_table : r.uuid # id }
    IN  CASE fault = "delete_embeddings" -> [ status |-> 500, work |-> before ]
          [] fault = "delete_collection" ->
               [ status |-> 500, work |-> [coll |-> collection_table, emb |-> emb2] ]
          [] fault = "commit" ->
               [ status |-> 500, work |-> [coll |-> col3, emb |-> emb2] ]
          [] OTHER ->
               [ status |-> 204, work |-> [coll |-> col3, emb |-> emb2] ]

\* (changed) the eviction done before the transaction, whatever its outcome
DeleteCache_Always(n, status) == Evict(rag_chain_cache, n)

\* the cache after the transaction of delete_collection: step 4 is reached
\* only when the block committed
DeleteCache(n, status) ==
  IF status = 204 THEN Evict(rag_chain_cache, n) ELSE rag_chain_cache

\* DELETE /collections/{n}
delete_collection(n, fault) ==
  /\ Serving
  /\ IF NotReady THEN
       /\ fault = "none"
       /\ resp' = Reply("delete", n, 503, fault)
       /\ UNCHANGED << collection_table, embedding_table, rag_chain_cache, hist >>
     ELSE
       LET d   == delete_statements(n, fault)
           end == Transaction([coll |-> collection_table, emb |-> embedding_table],
                              d.work, d.status # 204)
       IN
       /\ fault \in {"delete_embeddings", "delete_collection", "commit"}
            => (tables_exist /\ HasCollection(collection_table, n))
       /\ collection_table' = end.coll
       /\ embedding_table' = end.emb
       /\ rag_chain_cache' = DeleteCache(n, d.status)
       /\ resp' = Reply("delete", n, d.status, fault)
       /\ hist' = IF d.status = 204
                  THEN [hist EXCEPT ![n] = "deleted"]
                  ELSE hist
  /\ UNCHANGED << env_set, startup, is_server_ready, components, call, tables_exist, inspector_cache >>

\* ------------------------------------------------------------------ Next
Ingest == \E n \in Names, c \in Contents, fault \in IngestFaults : ingest_data(n, c, fault)
Ask == \E n \in Names, fault \in AskFaults : ask_question(n, fault)
List == \E fault \in ListFaults : list_collections(fault)
Delete == \E n \in Names, fault \in DeleteFaults : delete_collection(n, fault)

Next ==
  \/ startup_event
  \/ startup_event_KeyError
  \/ \E fault \in StartupFaults : startup_event_Error(fault)
  \/ Ingest
  \/ Ask
  \/ List
  \/ Delete

Spec == Init /\ [][Next]_vars

\* ======================================================================
\* ConfluenceRAGApp (src/document_loader/confluence_loader.py): a command
\* line program of its own over the same kind of store; its methods run one
\* at a time.
\* ======================================================================

\* the server's variables, which the loader does not have
server == << env_set, startup, is_server_ready, components, inspector_cache,
            rag_chain_cache, resp, hist >>

\* the object after __init__, over a fresh database
LoaderInit ==
  /\ env_set = TRUE
  /\ startup = "pending"
  /\ is_server_ready = FALSE
  /\ components = {}
  /\ tables_exist = FALSE
  /\ collection_table = {}
  /\ embedding_table = {}
  /\ inspector_cache = "unset"
  /\ rag_chain_cache = [m \in {} |-> NoHandle]
  /\ resp = NoReply
  /\ call = NoCall
  /\ hist = [n \in Names |-> "none"]

\* the for loop over space_keys from the i-th key on: a space whose load
\* raises is skipped, the pages of the others are appended in order
RECURSIVE load_spaces(_, _)
load_spaces(loads, i) ==
  IF i > Len(SpaceKeys) THEN << >>
  ELSE LET key == SpaceKeys[i]
           documents == [ j \in 1..Len(loads[key].documents) |->
                            [ space |-> key,
                              len   |-> loads[key].documents[j].len,
                              blank |-> loads[key].documents[j].blank ] ]
       IN  (IF loads[key].raised THEN << >> ELSE documents)
             \o load_spaces(loads, i + 1)

\* text_splitter.split_documents(all_documents), as the rows the store makes
\* of the chunks for the collection id
split_documents(id, docs) ==
  UNION { NewEmbeddings(id, docs[j]) : j \in 1..Len(docs) }

\* the call of from_documents that raises: "embed" before anything is
\* written, "create" and "insert" after the pre-delete
LoadFaults == {"none", "embed", "create", "insert"}

\* (changed) the return on an empty all_documents left out
store_documents_NoEmptyCheck(n, docs, fault) ==
  LET old_emb == IF HasCollection(collection_table, n)
                   THEN DropEmbeddings(embedding_table, UuidOf(collection_table, n))
                   ELSE embedding_table
      dropped == DropCollection(collection_table, n)
      created == dropped \cup { [name |-> n, uuid |-> FreshUuid(n)] }
  IN  CASE fault = "embed" ->
             [raised |-> TRUE, tables |-> tables_exist,
              coll |-> collection_table, emb |-> embedding_table]
        [] fault = "create" ->
             [raised |-> TRUE, tables |-> TRUE, coll |-> dropped, emb |-> old_emb]
        [] fault = "insert" ->
             [raised |-> TRUE, tables |-> TRUE, coll |-> created, emb |-> old_emb]
        [] OTHER ->
             [raised |-> FALSE, tables |-> TRUE, coll |-> created,
              emb |-> old_emb \cup split_documents(FreshUuid(n), docs)]

\* load_confluence_data after the loop: return when nothing was loaded;
\* otherwise split, and PGVector.from_documents(pre_delete_collection=True)
\* inside a try whose except prints and re-raises.  The faults are those of
\* from_documents above.
store_documents(n, docs, fault) ==
  LET old_emb == IF HasCollection(collection_table, n)
                   THEN DropEmbeddings(embedding_table, UuidOf(collection_table, n))
                   ELSE embedding_table
      dropped == DropCollection(collection_table, n)
      created == dropped \cup { [name |-> n, uuid |-> FreshUuid(n)] }
  IN  CASE docs = << >> ->
             [raised |-> FALSE, tables |-> tables_exist,
              coll |-> collection_table, emb |-> embedding_table]
        [] fault = "embed" ->
             [raised |-> TRUE, tables |-> tables_exist,
              coll |-> collection_table, emb |-> embedding_table]
        [] fault = "create" ->
             [raised |-> TRUE, tables |-> TRUE, coll |-> dropped, emb |-> old_emb]
        [] fault = "insert" ->
             [raised |-> TRUE, tables |-> TRUE, coll |-> created, emb |-> old_emb]
        [] OTHER ->
             [raised |-> FALSE, tables |-> TRUE, coll |-> created,
              emb |-> old_emb \cup split_documents(FreshUuid(n), docs)]

load_confluence_data(n, loads, fault) ==
  LET all_documents == load_spaces(loads, 1)
      w == store_documents(n, all_documents, fault)
  IN  /\ all_documents = << >> => fault = "none"
      /\ HasFreshUuid(n)
      /\ tables_exist' = w.tables
      /\ collection_table' = w.coll
      /\ embedding_table' = w.emb
      /\ call' = [ NoCall EXCEPT !.op = "load", !.name = n, !.loads = loads,
                                 !.documents = all_documents,
                                 !.fault = Raised(fault), !.raised = w.raised ]
      /\ UNCHANGED server

AskQueryFaults == {"none", "store", "embed", "llm"}

\* (changed) the check for an empty relevant_docs left out
askQuery_body_NoEmptyCheck(n, fault) ==
  IF fault = "store" THEN
    [ raised |-> FALSE, result |-> [prefix |-> ErrorPrefix, text |-> fault],
      llm_calls |-> 0, tables |-> tables_exist, coll |-> collection_table ]
  ELSE
    LET coll == GetOrCreate(collection_table, n, FreshUuid(n))
    IN  CASE fault = "embed" ->
               [ raised |-> FALSE, result |-> [prefix |-> ErrorPrefix, text |-> fault],
                 llm_calls |-> 0, tables |-> TRUE, coll |-> coll ]
          [] fault = "llm" ->
               [ raised |-> FALSE, result |-> [prefix |-> ErrorPrefix, text |-> fault],
                 llm_calls |-> 1, tables |-> TRUE, coll |-> coll ]
          [] OTHER ->
               [ raised |-> FALSE, result |-> [prefix |-> "", text |-> "answer"],
                 llm_calls |-> 1, tables |-> TRUE, coll |-> coll ]

\* The body of askQuery.  PGVector(...) makes the tables and the row of the
\* collection when they are missing ("store": the database cannot be
\* reached); get_relevant_documents embeds the query ("embed") and returns
\* the nearest rows of the collection, none exactly when it has none; then
\* the fixed string is returned, or the chain retrieves again and calls the
\* chat model ("llm").  Whatever is raised inside the try is returned as
\* the error string.
askQuery_body(n, fault) ==
  IF fault = "store" THEN
    [ raised |-> FALSE, result |-> [prefix |-> ErrorPrefix, text |-> fault],
      llm_calls |-> 0, tables |-> tables_exist, coll |-> collection_table ]
  ELSE
    LET coll == GetOrCreate(collection_table, n, FreshUuid(n))
        relevant_docs == EmbeddingsOf(embedding_table, UuidOf(coll, n))
    IN  CASE fault = "embed" ->
               [ raised |-> FALSE, result |-> [prefix |-> ErrorPrefix, text |-> fault],
                 llm_calls |-> 0, tables |-> TRUE, coll |-> coll ]
          [] relevant_docs = {} ->
               [ raised |-> FALSE, result |-> [prefix |-> "", text |-> NoInformation],
                 llm_calls |-> 0, tables |-> TRUE, coll |-> coll ]
          [] fault = "llm" ->
               [ raised |-> FALSE, result |-> [prefix |-> ErrorPrefix, text |-> fault],
                 llm_calls |-> 1, tables |-> TRUE, coll |-> coll ]
          [] OTHER ->
               [ raised |-> FALSE, result |-> [prefix |-> "", text |-> "answer"],
                 llm_calls |-> 1, tables |-> TRUE, coll |-> coll ]

askQuery(n, fault) ==
  LET a == askQuery_body(n, fault)
  IN  /\ HasFreshUuid(n)
      /\ fault = "llm" => a.llm_calls = 1
      /\ tables_exist' = a.tables
      /\ collection_table' = a.coll
      /\ UNCHANGED embedding_table
      /\ call' = [ NoCall EXCEPT !.op = "ask", !.name = n, !.fault = Raised(fault),
                                 !.raised = a.raised, !.result = a.result,
                                 !.llm_calls = a.llm_calls ]
      /\ UNCHANGED server

Load ==
  \E n \in Names, loads \in [Spaces -> LoadResults], fault \in LoadFaults :
    load_confluence_data(n, loads, fault)

AskQuery == \E n \in Names, fault \in AskQueryFaults : askQuery(n, fault)

LoaderNext ==
  \/ Load
  \/ AskQuery

LoaderSpec == LoaderInit /\ [][LoaderNext]_vars

\* ======================================================================
\* Claims
\* ======================================================================

\* the handle cached for n was built over the collection n holds now
Current(n) ==
  /\ HasCollection(collection_table, n)
  /\ rag_chain_cache[n].built = UuidOf(collection_table, n)

\* C1: in every reachable state each handle held in rag_chain_cache reflects
\* the current contents of its collection: no cache entry for a name survives
\* a mutation of that name's collection, a mutation that changed the store
\* and then failed before the eviction step included.
C1_CacheReflectsCollection ==
  \A n \in DOMAIN rag_chain_cache : Current(n)

\* C2: after a successful POST /ingest for n the cache has no entry for n;
\* so a handle cached for n while that ingest is the last write to n's
\* collection was built over the collection the ingest wrote, and the handle
\* a POST /ask answers from is the one the cache holds for its name.
C2_IngestInvalidates ==
  /\ (resp.op = "ingest" /\ resp.status = 200) => resp.name \notin DOMAIN rag_chain_cache
  /\ \A n \in DOMAIN rag_chain_cache : hist[n] = "ingested" => Current(n)
  /\ (resp.op = "ask" /\ resp.handle # NoHandle) =>
       /\ resp.name \in DOMAIN rag_chain_cache
       /\ rag_chain_cache[resp.name] = resp.handle

\* a POST /ask answered after a re-ingest that found a handle cached (the
\* new row's uuid is the second of the pool only when a handle held the first)
C2_Witness ==
  /\ resp.op = "ask" /\ resp.status = 200
  /\ hist[resp.name] = "ingested"
  /\ resp.handle.built.k = 2
  /\ EmbeddingsOf(embedding_table, resp.handle.built) # {}

\* C3: after a successful DELETE /collections/{name}, and until an ingest
\* writes to that name again, GET /collections does not contain the name and
\* every POST /ask for it returns 404.
C3_DeletedStays404 ==
  /\ (resp.op = "delete" /\ resp.status = 204) =>
        ~HasCollection(collection_table, resp.name)
  /\ (resp.op = "list" /\ resp.status = 200) =>
        \A n \in Names : hist[n] = "deleted" => n \notin resp.names
  /\ (resp.op = "ask" /\ is_server_ready /\ hist[resp.name] = "deleted") =>
        resp.status = 404

\* C4: while is_server_ready is False every request to /ask, /ingest,
\* /collections and DELETE /collections/{name} returns 503 and changes
\* neither the vector store nor rag_chain_cache.
C4_UnreadyIs503 ==
  [][ (~is_server_ready /\ startup' = startup) =>
        /\ resp'.op \in {"ask", "ingest", "list", "delete"}
        /\ resp'.status = 503
        /\ UNCHANGED << store, rag_chain_cache, inspector_cache >> ]_vars

\* an ingest turned away before startup has completed
C4_Witness ==
  /\ ~is_server_ready /\ startup = "pending"
  /\ resp.op = "ingest" /\ resp.status = 503
  /\ ChunkCount(resp.content) > 0

\* no embedding row without its metadata row
NoOrphans ==
  \A e \in embedding_table : \E r \in collection_table : r.uuid = e.collection_id

\* a DELETE step either leaves both tables as they were or removes the row
\* of the name together with every embedding row of its uuid, and nothing else
DeletedOrKept ==
  LET n == resp'.name IN
  \/ UNCHANGED << collection_table, embedding_table >>
  \/ /\ HasCollection(collection_table, n)
     /\ collection_table' = DropCollection(collection_table, n)
     /\ embedding_table' = DropEmbeddings(embedding_table, UuidOf(collection_table, n))

\* C5: DELETE /collections/{name} is atomic over its three statements: when
\* the request ends either the metadata row and all its vector rows are
\* gone or all of them are still present; no failure at an intermediate
\* statement leaves vector rows deleted with the row kept, or vector rows
\* without a metadata row.
C5_DeleteAtomic ==
  /\ [][ resp'.op = "delete" => DeletedOrKept ]_vars
  /\ []NoOrphans

\* a DELETE of a collection that holds vectors failed, and the collection
\* is whole
C5_Witness ==
  /\ resp.op = "delete" /\ resp.status = 500 /\ resp.fault = "store"
  /\ HasCollection(collection_table, resp.name)
  /\ EmbeddingsOf(embedding_table, UuidOf(collection_table, resp.name)) # {}

C7_IngestedIsListed ==
  (resp.op = "list" /\ resp.status = 200) =>
     \A n \in Names : hist[n] = "ingested" => n \in resp.names

\* C8: on a ready server POST /ingest returns 400 exactly when its content
\* splits into zero chunks, and then the vector store, an existing collection
\* of that name included, and rag_chain_cache are unchanged.
C8_ZeroChunksIs400 ==
  [][ (resp'.op = "ingest" /\ is_server_ready) =>
        /\ resp'.status = 400 <=> ChunkCount(resp'.content) = 0
        /\ resp'.status = 400 => UNCHANGED << store, rag_chain_cache >> ]_vars

\* a 400 for a name whose collection is stored and cached
C8_Witness ==
  /\ resp.op = "ingest" /\ resp.status = 400
  /\ resp.name \in DOMAIN rag_chain_cache
  /\ HasCollection(collection_table, resp.name)
  /\ EmbeddingsOf(embedding_table, UuidOf(collection_table, resp.name)) # {}

\* C9: a request in which a call to the store, the embedding model or the
\* chat model raised, and which is not a 503, 404 or 400 case, ends with
\* 500: the failure is final, no second attempt turns it into another
\* outcome.
C9_FailureIs500 ==
  (resp.fault # "none" /\ resp.status \notin {503, 404, 400}) => resp.status = 500

\* the chat model failed under a POST /ask that had its handle
C9_Witness ==
  /\ resp.op = "ask" /\ resp.fault = "llm" /\ resp.status = 500
  /\ resp.handle # NoHandle

\* C10: POST /ask for a collection that is missing or cannot be read returns
\* 404; when building the handle fails get_rag_chain adds no entry to the
\* cache, and a handle is stored only after it was built.
C10_MissingIs404 ==
  [][ (resp'.op = "ask" /\ is_server_ready) =>
        LET n == resp'.name IN
        /\ ~HasCollection(collection_table, n) => resp'.status = 404
        /\ resp'.status = 404 => rag_chain_cache' = rag_chain_cache
        /\ rag_chain_cache' # rag_chain_cache =>
             /\ resp'.handle # NoHandle
             /\ n \in DOMAIN rag_chain_cache'
             /\ rag_chain_cache'[n] = resp'.handle ]_vars

\* C11: on a ready server GET /collections returns the empty list when the
\* metadata table langchain_pg_collection does not exist, and otherwise
\* exactly the names stored in that table; it never changes the store or
\* rag_chain_cache (a request in which the database raised is answered 500
\* and is left out).
C11_ListReturnsNames ==
  [][ (resp'.op = "list" /\ is_server_ready /\ resp'.fault = "none") =>
        /\ resp'.status = 200
        /\ resp'.names = IF tables_exist THEN CollectionNames(collection_table)
                         ELSE {}
        /\ UNCHANGED << store, rag_chain_cache >> ]_vars

\* C12: when PG_VECTOR_DATABASE_URL is absent startup_event aborts and
\* is_server_ready stays False; is_server_ready becomes True only in the
\* step that completes a startup which assigned every shared component; and
\* once True it is never set back to False.
C12_ReadyOnlyAfterStartup ==
  /\ [](~env_set => (~is_server_ready /\ startup # "done"))
  /\ [](is_server_ready => (startup = "done" /\ components = Components))
  /\ [][ (~is_server_ready /\ is_server_ready') =>
           (startup = "pending" /\ startup' = "done"
              /\ components' = Components) ]_vars
  /\ [][ is_server_ready => is_server_ready' ]_vars

\* a startup that aborted on the missing variable, after the two models were
\* made, with the flag still False
C12_Witness ==
  /\ ~env_set /\ startup = "aborted"
  /\ components = {"llm", "embeddings"}
  /\ ~is_server_ready

CurrentAfter(n) ==
  n \in DOMAIN rag_chain_cache' =>
    /\ HasCollection(collection_table', n)
    /\ rag_chain_cache'[n].built = UuidOf(collection_table', n)

\* C14: for one POST /ask and one POST /ingest on the same name, in either
\* order of the two handlers, once both have completed rag_chain_cache holds
\* no handle for that name that was built before the ingest's store write
\* (the ingest wrote when it changed the store; an ask that was turned away
\* with 503 built nothing).
C14_NoHandleFromBeforeWrite ==
  [][ /\ ( /\ is_server_ready
           /\ resp.op = "ask" /\ resp'.op = "ingest" /\ resp'.name = resp.name
           /\ store' # store )
         => CurrentAfter(resp'.name)
      /\ ( /\ is_server_ready
           /\ resp.op = "ingest" /\ resp.status = 200
           /\ resp'.op = "ask" /\ resp'.name = resp.name )
         => CurrentAfter(resp'.name) ]_vars

\* the entries of the names other than n are the same before and after the
\* step
OthersKept(n) ==
  \A m \in Names \ {n} :
    /\ m \in DOMAIN rag_chain_cache' <=> m \in DOMAIN rag_chain_cache
    /\ m \in DOMAIN rag_chain_cache => rag_chain_cache'[m] = rag_chain_cache[m]

\* C15: lookup-or-create: get_rag_chain(n) returns the stored handle without
\* building anything when n is in the cache, and otherwise builds one
\* handle, stores it under n and returns it (nothing is stored when the
\* build raises, which is the 404); so a POST /ask for n builds a handle
\* only when none is cached and never removes one, which leaves at most one
\* build between two mutations of n; and a request for n never changes the
\* entry of another name.
C15_LookupOrCreate ==
  [][ /\ (resp'.op = "ask" /\ is_server_ready) =>
           LET n == resp'.name IN
           /\ n \in DOMAIN rag_chain_cache =>
                /\ rag_chain_cache' = rag_chain_cache
                /\ resp'.handle = rag_chain_cache[n]
                /\ UNCHANGED store
           /\ (n \notin DOMAIN rag_chain_cache /\ resp'.status # 404) =>
                /\ DOMAIN rag_chain_cache' = DOMAIN rag_chain_cache \cup {n}
                /\ resp'.handle.collection_name = n
                /\ rag_chain_cache'[n] = resp'.handle
      /\ resp'.op \in {"ask", "ingest", "delete"} => OthersKept(resp'.name) ]_vars

\* a POST /ask answered while both names have a handle in the cache
C15_Witness ==
  /\ resp.op = "ask" /\ resp.status = 200
  /\ DOMAIN rag_chain_cache = Names
  /\ rag_chain_cache[resp.name] = resp.handle

LoadedPages(loads) ==
  UNION { { [ space |-> key,
              len   |-> loads[key].documents[j].len,
              blank |-> loads[key].documents[j].blank ] :
              j \in 1..Len(loads[key].documents) } :
          key \in { k \in Spaces : ~loads[k].raised } }

\* C17: load_confluence_data continues past a space whose load fails and
\* still collects the documents of every other space; when no document was
\* loaded from any space it returns without touching the vector store, so an
\* existing collection is not deleted; when the store write fails the
\* exception is raised to the caller; and when it does not fail the
\* collection holds the chunks of the collected documents.
C17_LoadSkipsFailedSpaces ==
  [][ call'.op = "load" =>
        LET n    == call'.name
            docs == call'.documents
        IN
        /\ { docs[j] : j \in 1..Len(docs) } = LoadedPages(call'.loads)
        /\ Len(docs) = Cardinality(LoadedPages(call'.loads))
        /\ docs = << >> => (UNCHANGED store /\ ~call'.raised)
        /\ call'.fault # "none" => call'.raised
        /\ (docs # << >> /\ call'.fault = "none") =>
             /\ ~call'.raised
             /\ HasCollection(collection_table', n)
             /\ EmbeddingsOf(embedding_table', UuidOf(collection_table', n))
                  = split_documents(UuidOf(collection_table', n), docs) ]_vars

\* a load in which one space failed and the page of the other space was
\* stored
C17_Witness ==
  /\ call.op = "load" /\ ~call.raised
  /\ \E key \in Spaces : call.loads[key].raised
  /\ Len(call.documents) = 1
  /\ HasCollection(collection_table, call.name)
  /\ Cardinality(EmbeddingsOf(embedding_table,
                              UuidOf(collection_table, call.name))) = 2

\* C18: askQuery never raises: a failure of the store, the retriever or the
\* chat model is returned as a string that starts with 'Error processing
\* your question:'; when the retriever returns no relevant document (the
\* collection holds no row) askQuery returns the fixed "I don't have enough
\* information" string without calling the chat model.
C18_AskQueryNeverRaises ==
  [][ call'.op = "ask" =>
        LET n == call'.name
            no_relevant_docs ==
              \/ ~HasCollection(collection_table, n)
              \/ EmbeddingsOf(embedding_table, UuidOf(collection_table, n)) = {}
        IN
        /\ ~call'.raised
        /\ call'.fault # "none" => call'.result.prefix = ErrorPrefix
        /\ (call'.fault = "none" /\ no_relevant_docs) =>
             /\ call'.result = [prefix |-> "", text |-> NoInformation]
             /\ call'.llm_calls = 0 ]_vars

\* a question about a collection without rows, answered with the fixed
\* string, while the other collection holds the pages of a load
C18_Witness ==
  /\ call.op = "ask" /\ call.fault = "none"
  /\ call.result.text = NoInformation
  /\ call.llm_calls = 0
  /\ embedding_table # {}

====
